---- MODULE Spec2Model ----
(***************************************************************************)
(* SolarEdge Modbus-TCP reader (src/app.py, class SolarEdgeModbusReader):  *)
(* the transport _read_registers, the decoders, the scale resolver and the *)
(* orchestrator read_all, as a state machine.                              *)
(*                                                                         *)
(* One poll is one execution of read_all.  Every transport call is split   *)
(* into its observable steps (connect, exchange, validate, close, sleep),  *)
(* the code between two transport calls is one step.                       *)
(*                                                                         *)
(* Numbers: Python integers are unbounded, the model's are 32-bit, so a    *)
(* scaled value raw * 10**sf is kept as the exact decimal <<m, e>> (value  *)
(* m * 10^e, m not divisible by 10) and is never multiplied out, and a raw *)
(* accumulator of 2^31 or more is kept as its two base-10^4 digits.        *)
(*                                                                         *)
(* Spec is the reader polling a device; SpecScale, SpecDecode and          *)
(* SpecSentinel apply the scaling, the decoders, the request builder and   *)
(* the sentinel check to drawn arguments.                                  *)
(*                                                                         *)
(* SpecUpload is the log uploader (src/upload.py): the main loop and the   *)
(* watchdog thread, with the clock they read; SpecUploadFair is the same   *)
(* under fair scheduling and a clock that never stops.                     *)
(***************************************************************************)
EXTENDS Integers, Sequences, FiniteSets, TLC

VARIABLES
    pc,         \* position of the (single) thread of control
    idx,        \* read_all: position of the for loop in self.registers (line 191)
    results,    \* read_all: the dict being assembled (line 189)
    raw_value,  \* read_all: decoded raw value of the current entry (lines 203, 213)
    values,     \* read_all: the words of the current entry's value read (202, 212)
    ret,        \* _read_registers: the words it returns (line 123)
    site,       \* caller of _read_registers: "value" (lines 137, 202, 212) or "sf" (175)
    start_addr, \* _read_registers: argument (line 72)
    count,      \* _read_registers: argument (line 72)
    sock,       \* _read_registers: the local sock: "None", "socket", "closed" (line 74)
    response,   \* _read_registers: bytes received (line 100)
    exc,        \* exception in flight (NoExc when none)
    open_fds,   \* sockets of the process that are open (lines 65, 131)
    leaked,     \* open sockets referenced only by the traceback of exc (lines 65-70)
    slept,      \* inter-request delays performed by the current call (line 132)
    calls,      \* history: the _read_registers calls of this poll, in order
    bg,         \* environment: the device outside the burst (down, or the word it answers)
    burst,      \* environment: first catalog position of the burst of free outcomes
    fx,         \* arguments and result of the function applied (SpecScale, SpecDecode)
    io,         \* _read_registers: sockets created (line 65), requests sent (94), recvs (100)
    config,     \* self.host, port, timeout, unit_id, delay_between_requests (lines 13-17)
    uploader    \* src/upload.py: the globals, the clock and the two threads of the uploader

vars == <<pc, idx, results, raw_value, values, ret, site, start_addr, count, sock,
          response, exc, open_fds, leaked, slept, calls, bg, burst, fx, io, config, uploader>>

(***************************************************************************)
(* The register catalog: self.registers, an OrderedDict.                   *)
(***************************************************************************)
Str(n, l) == [name |-> n, type |-> "string", length |-> l]
Reg(n, t) == [name |-> n, type |-> t]
RegSf(n, t, s) == [name |-> n, type |-> t, sf |-> s]
RegSfInv(n, t, s, i) == [name |-> n, type |-> t, sf |-> s, invalid |-> i]

registers ==
    (40000 :> Str("C_SunSpec_ID", 2)) @@
    (40004 :> Str("C_Manufacturer", 16)) @@
    (40020 :> Str("C_Model", 16)) @@
    (40044 :> Str("C_Version", 8)) @@
    (40052 :> Str("C_SerialNumber", 16)) @@
    (40071 :> RegSfInv("I_AC_Current", "uint16", 40075, 65535)) @@
    (40072 :> RegSfInv("I_AC_CurrentA", "uint16", 40075, 65535)) @@
    (40075 :> Reg("I_AC_Current_SF", "int16")) @@
    (40076 :> RegSfInv("I_AC_VoltageAB", "uint16", 40082, 65535)) @@
    (40079 :> RegSfInv("I_AC_VoltageAN", "uint16", 40082, 65535)) @@
    (40082 :> Reg("I_AC_Voltage_SF", "int16")) @@
    (40083 :> RegSfInv("I_AC_Power", "int16", 40084, 32768)) @@
    (40084 :> Reg("I_AC_Power_SF", "int16")) @@
    (40085 :> RegSfInv("I_AC_Frequency", "uint16", 40086, 65535)) @@
    (40086 :> Reg("I_AC_Frequency_SF", "int16")) @@
    (40093 :> RegSf("I_AC_Energy_WH", "acc32", 40095)) @@
    (40095 :> Reg("I_AC_Energy_WH_SF", "uint16")) @@
    (40096 :> RegSfInv("I_DC_Current", "uint16", 40097, 65535)) @@
    (40097 :> Reg("I_DC_Current_SF", "int16")) @@
    (40098 :> RegSfInv("I_DC_Voltage", "uint16", 40099, 65535)) @@
    (40099 :> Reg("I_DC_Voltage_SF", "int16")) @@
    (40100 :> RegSfInv("I_DC_Power", "int16", 40101, 32768)) @@
    (40101 :> Reg("I_DC_Power_SF", "int16")) @@
    (40107 :> Reg("I_Status", "uint16")) @@
    (40103 :> RegSfInv("I_Temp_Sink", "int16", 40106, 32768)) @@
    (40106 :> Reg("I_Temp_SF", "int16"))

\* The iteration order of self.registers.items(): insertion order.
RegisterOrder ==
    <<40000, 40004, 40020, 40044, 40052, 40071, 40072, 40075, 40076, 40079,
      40082, 40083, 40084, 40085, 40086, 40093, 40095, 40096, 40097, 40098,
      40099, 40100, 40101, 40107, 40103, 40106>>

status_descriptions ==
    (1 :> "Off") @@ (2 :> "Sleeping (Night)") @@ (3 :> "Grid Monitoring") @@
    (4 :> "Producing Power") @@ (5 :> "Production Curtailed") @@
    (6 :> "Shutting Down") @@ (7 :> "Fault") @@ (8 :> "Maintenance")

\* The characters of the type names, for str.endswith.
TypeChars ==
    [string |-> <<"s", "t", "r", "i", "n", "g">>,
     uint16 |-> <<"u", "i", "n", "t", "1", "6">>,
     int16  |-> <<"i", "n", "t", "1", "6">>,
     acc32  |-> <<"a", "c", "c", "3", "2">>]

EndsWith(s, suffix) ==
    /\ Len(s) >= Len(suffix)
    /\ SubSeq(s, Len(s) - Len(suffix) + 1, Len(s)) = suffix

\* reg_info['type'].endswith('_SF')
IsSkipped(reg_info) == EndsWith(TypeChars[reg_info.type], <<"_", "S", "F">>)

(***************************************************************************)
(* Values.                                                                 *)
(***************************************************************************)
\* Python's None as a quantity value, and as a scale factor.
NoData == [kind |-> "None"]
NoneSf == [some |-> FALSE, v |-> 0]
SomeSf(x) == [some |-> TRUE, v |-> x]

\* The exact decimal m * 10^e in normal form (m not divisible by 10; zero is <<0, 0>>).
RECURSIVE Normal(_, _)
Normal(m, e) ==
    IF m = 0 THEN [kind |-> "num", m |-> 0, e |-> 0]
    ELSE IF m % 10 = 0 THEN Normal(m \div 10, e + 1)
    ELSE [kind |-> "num", m |-> m, e |-> e]

\* A Python integer as handed to _apply_scale_factor: an integer of the model
\* when it is below 2^31, otherwise the pair high * 10^4 + low of its base-10^4
\* digits (0 <= low < 10^4).
Num(n) == [wide |-> FALSE, n |-> n]
Wide(high, low) == [wide |-> TRUE, high |-> high, low |-> low]

\* value * (10 ** sf); a wide value that ends in 0 has a tenth below 2^31.
Times10Pow(value, sf) ==
    IF value.wide
    THEN IF value.low % 10 = 0
         THEN Normal(value.high * 1000 + value.low \div 10, sf + 1)
         ELSE [kind |-> "wide", high |-> value.high, low |-> value.low, e |-> sf]
    ELSE Normal(value.n, sf)

StrValue(bytes) == [kind |-> "str", s |-> bytes]

\* An exception object: its class, its message, and the number the message embeds.
NoExc == [type |-> "none", msg |-> "", code |-> 0]
Raise(t, m, c) == [type |-> t, msg |-> m, code |-> c]

\* The classes that `except Exception` catches, among those the code can raise.
ExceptionSubclasses ==
    {"Exception", "ValueError", "IndexError", "struct.error", "socket.timeout",
     "OSError"}

(***************************************************************************)
(* _read_registers: validation and extraction of a response (lines 102-123)*)
(***************************************************************************)
\* struct.unpack('>H', two bytes)[0]
UnpackH(b1, b2) == b1 * 256 + b2

\* struct.pack('>H', val)
PackH(val) == <<val \div 256, val % 256>>

\* The ranges struct.pack accepts for the formats H and B.
FitsH(val) == val >= 0 /\ val <= 65535
FitsB(val) == val >= 0 /\ val <= 255

\* Lines 79-91 with the offset taken as the address itself.
Request_AbsoluteAddress(unit_id, addr, cnt) ==
    IF FitsB(unit_id) /\ FitsH(addr) /\ FitsH(cnt)
    THEN [ok |-> TRUE,
          bytes |-> PackH(1) \o PackH(0) \o PackH(6) \o <<unit_id, 3>>
                    \o PackH(addr) \o PackH(cnt)]
    ELSE [ok |-> FALSE, bytes |-> <<>>]

\* Lines 79-91: struct.pack('>HHHBBHH', 1, 0, 6, unit_id, 0x03, start_addr - 40000,
\* count), which raises struct.error for a value outside the range of its format.
Request(unit_id, addr, cnt) ==
    IF FitsB(unit_id) /\ FitsH(addr - 40000) /\ FitsH(cnt)
    THEN [ok |-> TRUE,
          bytes |-> PackH(1) \o PackH(0) \o PackH(6) \o <<unit_id, 3>>
                    \o PackH(addr - 40000) \o PackH(cnt)]
    ELSE [ok |-> FALSE, bytes |-> <<>>]

\* Lines 102-123 on the bytes received: the words returned, or the exception raised.
\* Python's response[k] is response[k + 1] here.
ParseResponse(resp, cnt) ==
    IF Len(resp) = 0
        THEN [ok |-> FALSE, values |-> <<>>,
              exc |-> Raise("ValueError", "Empty response", 0)]
    ELSE IF Len(resp) < 8
        THEN [ok |-> FALSE, values |-> <<>>,
              exc |-> Raise("ValueError", "Response too short", Len(resp))]
    ELSE IF resp[8] = 131
        THEN IF Len(resp) >= 9
             THEN [ok |-> FALSE, values |-> <<>>,
                   exc |-> Raise("ValueError", "Modbus error", resp[9])]
             ELSE [ok |-> FALSE, values |-> <<>>,
                   exc |-> Raise("IndexError", "index out of range", 0)]
    ELSE IF Len(resp) < 9 + cnt * 2
        THEN [ok |-> FALSE, values |-> <<>>,
              exc |-> Raise("ValueError", "Response too short for registers", cnt)]
    ELSE LET data == SubSeq(resp, 10, 9 + cnt * 2)
         IN  [ok |-> TRUE,
              values |-> [i \in 1..cnt |-> UnpackH(data[2 * i - 1], data[2 * i])],
              exc |-> NoExc]

(***************************************************************************)
(* _read_string (lines 134-139), on the words the transport returned.      *)
(***************************************************************************)
RECURSIVE JoinPacked(_)
JoinPacked(words) ==
    IF words = <<>> THEN <<>> ELSE PackH(Head(words)) \o JoinPacked(Tail(words))

\* bytes[:length]
Prefix(bytes, length) == SubSeq(bytes, 1, IF Len(bytes) < length THEN Len(bytes) ELSE length)

\* .decode('ascii', errors='ignore'): the bytes above 0x7F are dropped.
DecodeAsciiIgnore(bytes) == SelectSeq(bytes, LAMBDA b : b <= 127)

RECURSIVE LStrip(_)
LStrip(s) == IF s # <<>> /\ Head(s) = 0 THEN LStrip(Tail(s)) ELSE s

RECURSIVE RStrip(_)
RStrip(s) == IF s # <<>> /\ s[Len(s)] = 0 THEN RStrip(SubSeq(s, 1, Len(s) - 1)) ELSE s

\* str.rstrip('\x00') in the place of strip: NULs are removed at the end only.
StripNul_TrailingOnly(s) == RStrip(s)

\* str.strip('\x00'): NULs are removed at both ends.
StripNul(s) == RStrip(LStrip(s))

\* reg_count = (length + 1) // 2
RegCount(length) == (length + 1) \div 2

DecodeString(words, length) ==
    StripNul(DecodeAsciiIgnore(Prefix(JoinPacked(words), length)))

(***************************************************************************)
(* Scale factors and validity (lines 141-185).                             *)
(***************************************************************************)
\* _validate_scale_factor without its envelope check (line 145).
ValidateScaleFactor_NoEnvelope(sf) == IF ~sf.some THEN 0 ELSE sf.v

\* _validate_scale_factor
ValidateScaleFactor(sf) ==
    IF ~sf.some THEN 0
    ELSE IF sf.v < -5 \/ sf.v > 5 THEN 0
    ELSE sf.v

\* _apply_scale_factor returning the raw value.
ApplyScaleFactor_Unscaled(value, scale_factor) == Times10Pow(value, 0)

\* _apply_scale_factor
ApplyScaleFactor(value, scale_factor) ==
    Times10Pow(value, ValidateScaleFactor(scale_factor))

\* _is_valid_value without the signed comparison of line 158.
IsValidValue_Unsigned(reg_info, value) ==
    IF "invalid" \in DOMAIN reg_info THEN value # reg_info.invalid ELSE TRUE

\* _is_valid_value
IsValidValue(reg_info, value) ==
    IF "invalid" \in DOMAIN reg_info
    THEN IF reg_info.type = "int16" /\ value = reg_info.invalid - 65536 THEN FALSE
         ELSE IF value = reg_info.invalid THEN FALSE
         ELSE TRUE
    ELSE TRUE

\* Lines 215-217 left out: the word is kept as read.
DecodeRaw_Unsigned(reg_info, word) == word

\* Lines 215-217: the signed reading of a word of an int16 register.
DecodeRaw(reg_info, word) ==
    IF reg_info.type = "int16" /\ word > 32767 THEN word - 65536 ELSE word

\* Line 203 with the words taken low word first.
Acc32_LowWordFirst(vals) ==
    LET t == vals[2] * 5536 + vals[1]
        high == vals[2] * 6 + t \div 10000
        low == t % 10000
    IN  IF high < 214748 \/ (high = 214748 /\ low < 3648)
        THEN Num(high * 10000 + low)
        ELSE Wide(high, low)

\* Line 203: (values[0] << 16) | values[1]; the low 16 bits of the shifted word
\* are zero and values[1] < 2^16, so the bitwise or is the sum
\* values[0] * 65536 + values[1].  Python's integer does not overflow; the sum
\* is computed in base 10^4 (65536 = 6 * 10^4 + 5536) and is an integer of the
\* model below 2^31 = 214748 * 10^4 + 3648, and a wide number from there on.
Acc32(vals) ==
    LET t == vals[1] * 5536 + vals[2]
        high == vals[1] * 6 + t \div 10000
        low == t % 10000
    IN  IF high < 214748 \/ (high = 214748 /\ low < 3648)
        THEN Num(high * 10000 + low)
        ELSE Wide(high, low)

\* _get_scale_factor without the sign handling of lines 179-180.
DecodeScaleFactor_Unsigned(sf_reg, word) == word

\* _get_scale_factor, lines 176-182, on the word read from the scale-factor register.
DecodeScaleFactor(sf_reg, word) ==
    IF sf_reg.type = "int16" /\ word > 32767 THEN word - 65536 ELSE word

\* Lines 231-232 without the default: status_descriptions.get(code)
StatusDescription_NoDefault(code) ==
    IF code \in DOMAIN status_descriptions
    THEN [kind |-> "text", text |-> status_descriptions[code], arg |-> 0]
    ELSE NoData

\* Lines 231-232: status_descriptions.get(code, f"Unknown status ({code})")
StatusDescription(code) ==
    IF code \in DOMAIN status_descriptions
    THEN [kind |-> "text", text |-> status_descriptions[code], arg |-> 0]
    ELSE [kind |-> "text", text |-> "Unknown status (%)", arg |-> code]

(***************************************************************************)
(* The environment: the inverter and the network.                          *)
(*                                                                         *)
(* During a burst of BurstLen consecutive catalog entries every transport  *)
(* call has any outcome (connection failure, timeout, any response below); *)
(* outside the burst the device behaves uniformly as bg says: unreachable, *)
(* or answering every register with the word bg.word.                      *)
(***************************************************************************)
BurstLen == 1

\* Register words the device answers with: a small status code and exponent,
\* an ordinary reading, the signed sentinel 0x8000, the unsigned sentinel 0xFFFF.
Words == {2, 150, 32768, 65535}

\* The two words of an accumulator; the high word stays below 2^15 so that the
\* combined value is a 32-bit integer of the model checker.
AccPayloads == {<<0, 1>>, <<1, 0>>, <<32767, 65535>>}

\* Words of string registers: "Su", NUL NUL, "S" with a non-ASCII byte, NUL "A".
StrWords == {21365, 0, 21443, 65}

BgWords == {2, 150}

Backgrounds == {[up |-> FALSE, word |-> 0]} \cup {[up |-> TRUE, word |-> w] : w \in BgWords}

Payloads(cnt) ==
    IF cnt = 1 THEN {<<w>> : w \in Words}
    ELSE IF cnt = 2 THEN AccPayloads
    ELSE {[i \in 1..cnt |-> w] : w \in StrWords}
         \cup {[i \in 1..cnt |-> IF i = 1 THEN 21365 ELSE 0]}

\* MBAP header of a response: transaction id 1, protocol id 0, length, unit id 1.
Header(len) == <<0, 1, 0, 0, 0, len, 1>>

GoodResponse(words) ==
    Header(3 + 2 * Len(words)) \o <<3, 2 * Len(words)>> \o JoinPacked(words)

ExceptionResponse(code) == Header(3) \o <<131, code>>

DropLast(s) == SubSeq(s, 1, Len(s) - 1)

\* What one recv can deliver for a request of cnt registers.
Responses(cnt) ==
    {<<>>, Header(0), DropLast(ExceptionResponse(2)), ExceptionResponse(2),
     ExceptionResponse(11) \o <<0, 0, 0>>}
    \cup {DropLast(GoodResponse(w)) : w \in Payloads(cnt)}
    \cup {GoodResponse(w) : w \in Payloads(cnt)}
    \cup {GoodResponse(w) \o <<0>> : w \in Payloads(cnt)}

\* Status codes the device answers for I_Status: in the table (1, 4, 8), next to
\* it (0, 9) and far from it (99).
StatusWords == {0, 1, 4, 8, 9, 99}

\* What one recv can deliver for a request of cnt registers at addr.
ResponsesFor(addr, cnt) ==
    Responses(cnt)
    \cup (IF addr = 40107 THEN {GoodResponse(<<w>>) : w \in StatusWords} ELSE {})

InBurst == idx >= burst /\ idx < burst + BurstLen

(***************************************************************************)
(* State.                                                                  *)
(***************************************************************************)
EmptyDict == [k \in {} |-> NoData]

\* results[key] = value
Put(dict, key, value) ==
    [k \in DOMAIN dict \cup {key} |-> IF k = key THEN value ELSE dict[k]]

NoFx == [op |-> "none", value |-> 0, sf |-> NoneSf, out |-> NoData]

\* The traffic of one _read_registers call, none yet.
NoIo == [created |-> 0, requests |-> <<>>, recvs |-> 0]

\* The reader main constructs (lines 12-17 and 306-310).
DefaultConfig ==
    [host |-> "192.168.8.231", port |-> 1502, timeout |-> 20, unit_id |-> 1,
     delay_between_requests |-> [kind |-> "num", m |-> 5, e |-> -1]]

\* src/upload.py is another program: it does not run in the reader's process.
NotStarted == [main |-> "none"]

\* The state in which read_all is entered (line 189), for any environment.
PollStart ==
    /\ pc = "loop"
    /\ idx = 1
    /\ results = EmptyDict
    /\ raw_value = 0
    /\ values = <<>>
    /\ ret = <<>>
    /\ site = "value"
    /\ start_addr = 0
    /\ count = 0
    /\ sock = "None"
    /\ response = <<>>
    /\ exc = NoExc
    /\ open_fds = 0
    /\ leaked = 0
    /\ slept = 0
    /\ calls = <<>>
    /\ io = NoIo
    /\ bg \in Backgrounds
    /\ burst \in 1..Len(RegisterOrder)

Init == PollStart /\ fx = NoFx /\ config = DefaultConfig /\ uploader = NotStarted

(***************************************************************************)
(* _create_connection and _read_registers (lines 62-132).                  *)
(***************************************************************************)
\* The call self._read_registers(a, c) made from `from`: lines 74-75.
CallReadRegisters(a, c, from) ==
    /\ start_addr' = a
    /\ count' = c
    /\ site' = from
    /\ sock' = "None"
    /\ response' = <<>>
    /\ ret' = <<>>
    /\ slept' = 0
    /\ io' = NoIo
    /\ calls' = Append(calls, [idx |-> idx, addr |-> a, count |-> c, site |-> from,
                               state |-> "pending", words |-> <<>>])
    /\ pc' = "connect"

\* Lines 64-68 and 76: socket(), settimeout(), connect() succeed.
ConnectOk ==
    /\ pc = "connect"
    /\ InBurst \/ bg.up
    /\ sock' = "socket"
    /\ open_fds' = open_fds + 1
    /\ io' = [io EXCEPT !.created = @ + 1]
    /\ pc' = "send"
    /\ UNCHANGED <<idx, results, raw_value, values, ret, site, start_addr, count,
                   response, exc, leaked, slept, calls, bg, burst, fx, config, uploader>>

\* Lines 64-70: socket() succeeds, connect() raises, the except clause raises
\* Exception("Connection failed") without closing the socket, which stays open,
\* referenced by the traceback of the exception only; sock of _read_registers
\* stays None.
ConnectFail ==
    /\ pc = "connect"
    /\ InBurst \/ ~bg.up
    /\ open_fds' = open_fds + 1
    /\ leaked' = leaked + 1
    /\ io' = [io EXCEPT !.created = @ + 1]
    /\ exc' = Raise("Exception", "Connection failed", 0)
    /\ pc' = "finally"
    /\ UNCHANGED <<idx, results, raw_value, values, ret, site, start_addr, count,
                   sock, response, slept, calls, bg, burst, fx, config, uploader>>

\* The request of the call in progress.
CurrentRequest == Request(config.unit_id, start_addr, count)

\* Line 94: sendall(request) has sent the request.
Sent(traffic, request) == [traffic EXCEPT !.requests = Append(@, request)]

\* Line 100: one more recv.
Received(traffic) == [traffic EXCEPT !.recvs = @ + 1]

\* Lines 94, 100 and 127-128: the request is sent, recv() raises socket.timeout,
\* which the except clause turns into Exception("Timeout waiting for response").
RecvTimeout ==
    /\ pc = "send"
    /\ InBurst
    /\ CurrentRequest.ok
    /\ io' = Received(Sent(io, CurrentRequest.bytes))
    /\ exc' = Raise("Exception", "Timeout waiting for response", 0)
    /\ pc' = "finally"
    /\ UNCHANGED <<idx, results, raw_value, values, ret, site, start_addr, count,
                   sock, response, open_fds, leaked, slept, calls, bg, burst, fx,
                   config, uploader>>

\* Lines 94 and 100: sendall() or recv() raises an OSError other than a timeout
\* (connection reset, broken pipe); neither except clause of lines 125-128
\* matches, the exception passes as it is.
SocketError ==
    /\ pc = "send"
    /\ InBurst
    /\ CurrentRequest.ok
    /\ \E sent \in BOOLEAN :
        io' = IF sent THEN Received(Sent(io, CurrentRequest.bytes)) ELSE io
    /\ exc' = Raise("OSError", "socket error", 0)
    /\ pc' = "finally"
    /\ UNCHANGED <<idx, results, raw_value, values, ret, site, start_addr, count,
                   sock, response, open_fds, leaked, slept, calls, bg, burst, fx,
                   config, uploader>>

\* Lines 125-126: struct.error becomes ValueError; every other class passes.
Reraised(e) ==
    IF e.type = "struct.error" THEN Raise("ValueError", "Invalid response format", 0)
    ELSE e

\* Lines 94-100 receiving in a loop: a second recv follows the first.
Exchange_ReceivingTwice ==
    /\ pc = "send"
    /\ io' = Received(Received(Sent(io, CurrentRequest.bytes)))
    /\ \E resp \in (IF InBurst THEN ResponsesFor(start_addr, count)
                    ELSE {GoodResponse([i \in 1..count |-> bg.word])}) :
        LET r == ParseResponse(resp, count)
        IN  /\ response' = resp
            /\ ret' = r.values
            /\ exc' = Reraised(r.exc)
    /\ pc' = "finally"
    /\ UNCHANGED <<idx, results, raw_value, values, site, start_addr, count, sock,
                   open_fds, leaked, slept, calls, bg, burst, fx, config, uploader>>

\* Lines 78-123: the request is packed and sent, one recv delivers resp, which
\* is validated and decoded; when struct.pack raises, nothing is sent.
Exchange ==
    /\ pc = "send"
    /\ IF CurrentRequest.ok
       THEN /\ io' = Received(Sent(io, CurrentRequest.bytes))
            /\ \E resp \in (IF InBurst THEN ResponsesFor(start_addr, count)
                            ELSE {GoodResponse([i \in 1..count |-> bg.word])}) :
                LET r == ParseResponse(resp, count)
                IN  /\ response' = resp
                    /\ ret' = r.values
                    /\ exc' = Reraised(r.exc)
       ELSE /\ exc' = Reraised(Raise("struct.error", "argument out of range", 0))
            /\ UNCHANGED <<io, response, ret>>
    /\ pc' = "finally"
    /\ UNCHANGED <<idx, results, raw_value, values, site, start_addr, count, sock,
                   open_fds, leaked, slept, calls, bg, burst, fx, config, uploader>>

\* Lines 129-131: finally: if sock: sock.close()
CloseSocket ==
    /\ pc = "finally"
    /\ IF sock # "None"
       THEN /\ sock' = "closed"
            /\ open_fds' = open_fds - 1
       ELSE UNCHANGED <<sock, open_fds>>
    /\ pc' = "sleep"
    /\ UNCHANGED <<idx, results, raw_value, values, ret, site, start_addr, count,
                   response, exc, leaked, slept, calls, bg, burst, fx, io, config, uploader>>

\* Line 132: time.sleep(self.delay_between_requests); then the call returns its
\* words or lets the exception pass to its caller.
SleepAndReturn ==
    /\ pc = "sleep"
    /\ slept' = slept + 1
    /\ calls' = [calls EXCEPT ![Len(calls)] =
                    [@ EXCEPT !.state = IF exc = NoExc THEN "ok" ELSE "failed",
                              !.words = ret]]
    /\ pc' = "returned"
    /\ UNCHANGED <<idx, results, raw_value, values, ret, site, start_addr, count,
                   sock, response, exc, open_fds, leaked, bg, burst, fx, io, config, uploader>>

(***************************************************************************)
(* read_all and _get_scale_factor (lines 164-238).                         *)
(***************************************************************************)
CurrentAddr == RegisterOrder[idx]
CurrentReg == registers[CurrentAddr]

\* _get_scale_factor reading each scale-factor address once per poll only.
NeedsScaleRead_Cached(reg_info) ==
    /\ "sf" \in DOMAIN reg_info
    /\ reg_info.sf \in DOMAIN registers
    /\ \A k \in 1..Len(calls) : ~(calls[k].site = "sf" /\ calls[k].addr = reg_info.sf)

\* Lines 166-172: _get_scale_factor issues a read only for a descriptor with an
\* 'sf' whose address is in the catalog.
NeedsScaleRead(reg_info) ==
    "sf" \in DOMAIN reg_info /\ reg_info.sf \in DOMAIN registers

\* Lines 207-208 (acc32): the scaled value is stored.
StoreAcc(dict, reg_info, raw, sf) ==
    Put(dict, reg_info.name, ApplyScaleFactor(raw, sf))

\* Lines 226-232 (16-bit): the scaled value is stored and, for I_Status, the
\* description of the word read.
StoreScaled(dict, reg_info, raw, sf, vals) ==
    LET stored == Put(dict, reg_info.name, ApplyScaleFactor(Num(raw), sf))
    IN  IF reg_info.name = "I_Status"
        THEN Put(stored, "I_Status_Description", StatusDescription(vals[1]))
        ELSE stored

\* Lines 136-137, 202, 212: the number of registers the value read asks for.
RequestedCount(reg_info) ==
    IF reg_info.type = "string" THEN RegCount(reg_info.length)
    ELSE IF reg_info.type = "acc32" THEN 2
    ELSE 1

\* The next iteration of the for loop.
NextEntry ==
    /\ idx' = idx + 1
    /\ pc' = "loop"

\* Lines 191-212: the loop takes the next catalog entry, skips it or issues its
\* value read.
ReadAllStep ==
    /\ pc = "loop"
    /\ idx <= Len(RegisterOrder)
    /\ IF IsSkipped(CurrentReg)
       THEN /\ NextEntry
            /\ UNCHANGED <<site, start_addr, count, sock, response, ret, slept, calls, io>>
       ELSE /\ CallReadRegisters(CurrentAddr, RequestedCount(CurrentReg), "value")
            /\ UNCHANGED idx
    /\ UNCHANGED <<results, raw_value, values, exc, open_fds, leaked, bg, burst, fx,
                   config, uploader>>

\* The exception object is released at the end of the except block that caught
\* it; with it go its traceback and the socket only the traceback referenced,
\* which reference counting closes at that moment.
ReleaseException ==
    /\ exc' = NoExc
    /\ open_fds' = open_fds - leaked
    /\ leaked' = 0

\* Lines 234-236 retrying the entry: the loop does not advance after a failure.
HandleEntryException_Retrying ==
    /\ ReleaseException
    /\ pc' = "loop"
    /\ UNCHANGED <<results, idx>>

\* Lines 234-236 catching ValueError only.
HandleEntryException_OnlyValueError ==
    IF exc.type = "ValueError"
    THEN /\ results' = Put(results, CurrentReg.name, NoData)
         /\ ReleaseException
         /\ NextEntry
    ELSE /\ pc' = "raised"
         /\ UNCHANGED <<results, exc, open_fds, leaked, idx>>

\* Lines 234-236 with the try around the for loop: the first failure ends the loop.
HandleEntryException_EndsLoop ==
    /\ results' = Put(results, CurrentReg.name, NoData)
    /\ ReleaseException
    /\ idx' = Len(RegisterOrder) + 1
    /\ pc' = "loop"

\* Lines 234-236 storing None for the status description too.
HandleEntryException_DescribingFailure ==
    IF exc.type \in ExceptionSubclasses
    THEN /\ results' = IF CurrentReg.name = "I_Status"
                       THEN Put(Put(results, CurrentReg.name, NoData),
                                "I_Status_Description", NoData)
                       ELSE Put(results, CurrentReg.name, NoData)
         /\ ReleaseException
         /\ NextEntry
    ELSE /\ pc' = "raised"
         /\ UNCHANGED <<results, exc, open_fds, leaked, idx>>

\* Lines 234-236: except Exception: results[name] = None.  Any other class
\* leaves read_all.
HandleEntryException ==
    IF exc.type \in ExceptionSubclasses
    THEN /\ results' = Put(results, CurrentReg.name, NoData)
         /\ ReleaseException
         /\ NextEntry
    ELSE /\ pc' = "raised"
         /\ UNCHANGED <<results, exc, open_fds, leaked, idx>>

\* Lines 196-227 after the value read of the current entry returned: the value is
\* decoded and stored, or the scale-factor read is issued.
AfterValueRead ==
    /\ pc = "returned"
    /\ site = "value"
    /\ IF exc # NoExc
       THEN /\ HandleEntryException
            /\ UNCHANGED <<raw_value, values, ret, site, start_addr, count, sock,
                           response, slept, calls, io>>
       ELSE /\ values' = ret
            /\ UNCHANGED <<exc, open_fds, leaked>>
            /\ IF CurrentReg.type = "string"
               THEN /\ results' = Put(results, CurrentReg.name,
                                      StrValue(DecodeString(ret, CurrentReg.length)))
                    /\ NextEntry
                    /\ UNCHANGED <<raw_value, ret, site, start_addr, count, sock,
                                   response, slept, calls, io>>
               ELSE LET raw == IF CurrentReg.type = "acc32" THEN Acc32(ret)
                               ELSE DecodeRaw(CurrentReg, ret[1])
                    IN  /\ raw_value' = raw
                        /\ IF CurrentReg.type # "acc32" /\ ~IsValidValue(CurrentReg, raw)
                           THEN /\ results' = Put(results, CurrentReg.name, NoData)
                                /\ NextEntry
                                /\ UNCHANGED <<ret, site, start_addr, count, sock,
                                               response, slept, calls, io>>
                           ELSE IF NeedsScaleRead(CurrentReg)
                           THEN /\ CallReadRegisters(CurrentReg.sf, 1, "sf")
                                /\ UNCHANGED <<results, idx>>
                           ELSE /\ results' =
                                      IF CurrentReg.type = "acc32"
                                      THEN StoreAcc(results, CurrentReg, raw, NoneSf)
                                      ELSE StoreScaled(results, CurrentReg, raw, NoneSf, ret)
                                /\ NextEntry
                                /\ UNCHANGED <<ret, site, start_addr, count, sock,
                                               response, slept, calls, io>>
    /\ UNCHANGED <<bg, burst, fx, config, uploader>>

\* Lines 174-185: what _get_scale_factor returns once its read has returned or
\* raised; every Exception is absorbed.
ScaleFactorResult(sf_reg, e, words) ==
    IF e = NoExc THEN SomeSf(DecodeScaleFactor(sf_reg, words[1]))
    ELSE IF e.type \in ExceptionSubclasses THEN NoneSf
    ELSE NoneSf

\* _get_scale_factor without its try (lines 174, 183-185): a failed scale-factor
\* read reaches the handler of read_all.
AfterScaleRead_Propagating ==
    /\ pc = "returned"
    /\ site = "sf"
    /\ results' = IF exc # NoExc THEN Put(results, CurrentReg.name, NoData)
                  ELSE StoreScaled(results, CurrentReg, raw_value,
                                   ScaleFactorResult(registers[CurrentReg.sf], exc, ret),
                                   values)
    /\ ReleaseException
    /\ NextEntry
    /\ UNCHANGED <<raw_value, values, ret, site, start_addr, count, sock, response,
                   slept, calls, bg, burst, fx, io, config, uploader>>

\* Lines 174-185 and 206-208 / 225-232 after the scale-factor read returned: the
\* exponent is decoded (or the failure absorbed) and the scaled value stored.
AfterScaleRead ==
    /\ pc = "returned"
    /\ site = "sf"
    /\ LET sf == ScaleFactorResult(registers[CurrentReg.sf], exc, ret)
       IN  results' = IF CurrentReg.type = "acc32"
                      THEN StoreAcc(results, CurrentReg, raw_value, sf)
                      ELSE StoreScaled(results, CurrentReg, raw_value, sf, values)
    /\ ReleaseException
    /\ NextEntry
    /\ UNCHANGED <<raw_value, values, ret, site, start_addr, count, sock, response,
                   slept, calls, bg, burst, fx, io, config, uploader>>

\* Line 238: return results.
ReadAllReturn ==
    /\ pc = "loop"
    /\ idx > Len(RegisterOrder)
    /\ pc' = "done"
    /\ UNCHANGED <<idx, results, raw_value, values, ret, site, start_addr, count,
                   sock, response, exc, open_fds, leaked, slept, calls, bg, burst, fx, io, config, uploader>>

\* The caller polls again, read_all filling a dict it keeps between the polls.
PollAgain_KeepingResults ==
    /\ pc = "done"
    /\ pc' = "loop"
    /\ idx' = 1
    /\ raw_value' = 0
    /\ values' = <<>>
    /\ ret' = <<>>
    /\ site' = "value"
    /\ start_addr' = 0
    /\ count' = 0
    /\ sock' = "None"
    /\ response' = <<>>
    /\ slept' = 0
    /\ calls' = <<>>
    /\ io' = NoIo
    /\ bg' \in Backgrounds
    /\ burst' \in 1..Len(RegisterOrder)
    /\ UNCHANGED <<results, exc, open_fds, leaked, fx, config, uploader>>

\* The caller polls again (main, lines 300-380): read_all is entered anew, with
\* a fresh results dict, against any environment.
PollAgain ==
    /\ pc = "done"
    /\ pc' = "loop"
    /\ idx' = 1
    /\ results' = EmptyDict
    /\ raw_value' = 0
    /\ values' = <<>>
    /\ ret' = <<>>
    /\ site' = "value"
    /\ start_addr' = 0
    /\ count' = 0
    /\ sock' = "None"
    /\ response' = <<>>
    /\ slept' = 0
    /\ calls' = <<>>
    /\ io' = NoIo
    /\ bg' \in Backgrounds
    /\ burst' \in 1..Len(RegisterOrder)
    /\ UNCHANGED <<exc, open_fds, leaked, fx, config, uploader>>

Next ==
    \/ ReadAllStep
    \/ ConnectOk
    \/ ConnectFail
    \/ RecvTimeout
    \/ SocketError
    \/ Exchange
    \/ CloseSocket
    \/ SleepAndReturn
    \/ AfterValueRead
    \/ AfterScaleRead
    \/ ReadAllReturn
    \/ PollAgain

Spec == Init /\ [][Next]_vars

(***************************************************************************)
(* _apply_scale_factor as a function: a raw value and an exponent (or None)*)
(* are drawn, and the function is applied.                                 *)
(***************************************************************************)
ScaleRaws == {0, 1, 150, 1234, 5000, 65535, -32768, -1, 2147483647}

ScaleExponents == (-7..7) \cup {-32768, 150, 32767, 65535}

ScaleInit ==
    /\ PollStart
    /\ uploader = NotStarted
    /\ bg = [up |-> FALSE, word |-> 0]
    /\ burst = 1
    /\ config = DefaultConfig
    /\ \E v \in ScaleRaws, sf \in {NoneSf} \cup {SomeSf(e) : e \in ScaleExponents} :
        fx = [op |-> "input", value |-> v, sf |-> sf, out |-> NoData]

\* value = self._apply_scale_factor(raw_value, sf)
ApplyScale ==
    /\ fx.op = "input"
    /\ fx' = [fx EXCEPT !.op = "applied", !.out = ApplyScaleFactor(Num(fx.value), fx.sf)]
    /\ UNCHANGED <<pc, idx, results, raw_value, values, ret, site, start_addr, count,
                   sock, response, exc, open_fds, leaked, slept, calls, bg, burst,
                   io, config, uploader>>

ScaleNext == ApplyScale

SpecScale == ScaleInit /\ [][ScaleNext]_vars

(***************************************************************************)
(* The decoders and the request builder as functions: the arguments are    *)
(* drawn, and the function is applied.                                     *)
(***************************************************************************)
\* Words a 16-bit register can deliver, around the bounds of the signed range.
WordSamples ==
    {0, 1, 2, 150, 255, 256, 32766, 32767, 32768, 32769, 40000, 65534, 65535}

\* The catalog's 16-bit descriptors.
Descriptors16 ==
    {registers[a] : a \in {b \in DOMAIN registers :
                              registers[b].type \in {"uint16", "int16"}}}

\* The words of an accumulator, high and low.
AccWords == {0, 1, 2, 32767, 32768, 65535}

\* Arguments of _read_registers, in and out of the ranges struct.pack accepts.
RequestAddrs ==
    {39999, 40000, 40001, 40071, 40107, 40255, 40256, 41000, 105535, 105536}
RequestCounts == {-1, 0, 1, 2, 8, 125, 256, 65535, 65536}
UnitIds == {-1, 0, 1, 2, 247, 255, 256}

\* Words of string registers: NUL NUL, NUL "A", "A" NUL, "AA", 0xC3 "A", "A" 0xC3.
StringWords == {0, 65, 16640, 16705, 49985, 16835}

\* Byte lengths of string descriptors: short ones, odd and even, for which all
\* the words are drawn, and the catalog's.
ShortLengths == 1..4
CatalogLengths == {registers[a].length : a \in {b \in DOMAIN registers :
                                                   registers[b].type = "string"}}

\* The words _read_registers returns to _read_string for a descriptor of byte
\* length len.
StringInputs(len) ==
    IF len \in ShortLengths THEN [1..RegCount(len) -> StringWords]
    ELSE Payloads(RegCount(len))

Input(op, arg) == [op |-> op, arg |-> arg, done |-> FALSE, out |-> NoData]

DecodeInit ==
    /\ PollStart
    /\ uploader = NotStarted
    /\ bg = [up |-> FALSE, word |-> 0]
    /\ burst = 1
    /\ \/ \E r \in Descriptors16, w \in WordSamples :
            fx = Input("word", [reg_info |-> r, word |-> w])
       \/ \E h \in AccWords, l \in AccWords :
            fx = Input("acc32", [reg_info |-> registers[40093], words |-> <<h, l>>])
       \/ \E a \in RequestAddrs, c \in RequestCounts :
            fx = Input("request", [start_addr |-> a, count |-> c])
       \/ \E len \in ShortLengths \cup CatalogLengths :
            \E ws \in StringInputs(len) :
                fx = Input("string", [length |-> len, words |-> ws])
    /\ config \in IF fx.op = "request"
                  THEN {[DefaultConfig EXCEPT !.unit_id = u] : u \in UnitIds}
                  ELSE {DefaultConfig}

\* The function applied leaves the state of the reader alone.
Applied(out) ==
    /\ ~fx.done
    /\ fx' = [fx EXCEPT !.done = TRUE, !.out = out]
    /\ UNCHANGED <<pc, idx, results, raw_value, values, ret, site, start_addr, count,
                   sock, response, exc, open_fds, leaked, slept, calls, bg, burst,
                   io, config, uploader>>

\* Lines 213-217: raw_value = values[0], with the sign handling.
DecodeWord ==
    /\ fx.op = "word"
    /\ Applied(DecodeRaw(fx.arg.reg_info, fx.arg.word))

\* Lines 202-203: the two registers of an accumulator are asked for and combined.
CombineAcc ==
    /\ fx.op = "acc32"
    /\ Applied([count |-> RequestedCount(fx.arg.reg_info),
                raw |-> Acc32(fx.arg.words)])

\* Lines 79-91: the request is built.
BuildRequest ==
    /\ fx.op = "request"
    /\ Applied(Request(config.unit_id, fx.arg.start_addr, fx.arg.count))

\* Lines 136-139: _read_string on the words its read returned.
ReadString ==
    /\ fx.op = "string"
    /\ Applied([count |-> RegCount(fx.arg.length),
                value |-> DecodeString(fx.arg.words, fx.arg.length)])

DecodeNext ==
    \/ DecodeWord
    \/ CombineAcc
    \/ BuildRequest
    \/ ReadString

SpecDecode == DecodeInit /\ [][DecodeNext]_vars

(***************************************************************************)
(* The sentinel check as a function of the word read: every word of 16     *)
(* bits is drawn for every descriptor of the catalog that declares a       *)
(* sentinel.                                                               *)
(***************************************************************************)
\* The catalog's descriptors with an 'invalid' entry.
SentinelDescriptors == {r \in Descriptors16 : "invalid" \in DOMAIN r}

\* Every word a register can deliver.
AllWords == 0..65535

SentinelInit ==
    /\ PollStart
    /\ uploader = NotStarted
    /\ bg = [up |-> FALSE, word |-> 0]
    /\ burst = 1
    /\ config = DefaultConfig
    /\ \E r \in SentinelDescriptors, w \in AllWords :
            fx = Input("valid", [reg_info |-> r, word |-> w])

\* Lines 213-220: raw_value = values[0], the sign handling, and the validity
\* check on the decoded value.
CheckValue ==
    /\ fx.op = "valid"
    /\ Applied(IsValidValue(fx.arg.reg_info,
                            DecodeRaw(fx.arg.reg_info, fx.arg.word)))

SentinelNext == CheckValue

SpecSentinel == SentinelInit /\ [][SentinelNext]_vars

(***************************************************************************)
(* The log uploader (src/upload.py).  Two threads share the module globals *)
(* last_successful_upload and upload_lock: the main thread runs main_loop, *)
(* the daemon thread runs watchdog_timer.  time.time() is the clock `now`, *)
(* in seconds; it does not go backwards.  A call that blocks (file, FTPS,  *)
(* subprocess, a sleep, the lock) is a position its thread stays at until  *)
(* the step that ends it; time passes by Tick, between the steps.          *)
(***************************************************************************)
UPLOAD_INTERVAL == 600
MAX_UPLOAD_FAILURE_TIME == 1800
WATCHDOG_INTERVAL == 605

\* The clock of SpecUpload stops here.
Horizon == 2420

\* The time an upload may take at a stretch: as long as the upload interval.
IoDurations == {UPLOAD_INTERVAL}

\* Where a thread performs file or FTPS I/O, and where it sleeps.
IoPositions == {"read_file", "connect", "cwd", "mkd", "stor", "quit"}
SleepPositions == {"sleep"}

\* The ways upload_log_file ends without a stored file.
FailingPaths == {"unreadable", "connect_failed", "mkdir_failed", "upload_error"}

\* Lines 34-35 and 185-192: the globals are initialised at import, the watchdog
\* thread is started and goes to sleep, the main thread enters main_loop.
UploadStart ==
    [now |-> 0,
     last_successful_upload |-> 0,
     upload_lock |-> "free",
     main |-> "read_file",
     watchdog |-> "sleep",
     main_wake |-> 0,
     watchdog_wake |-> WATCHDOG_INTERVAL,
     main_since |-> 0,
     watchdog_since |-> 0,
     handling |-> FALSE,
     success |-> "unset",
     path |-> "none",
     invoked |-> "none",
     halted |-> FALSE]

UploadInit ==
    /\ PollStart
    /\ bg = [up |-> FALSE, word |-> 0]
    /\ burst = 1
    /\ fx = NoFx
    /\ config = DefaultConfig
    /\ uploader = UploadStart

\* A step of the uploader leaves the reader alone.
ReaderUnchanged ==
    UNCHANGED <<pc, idx, results, raw_value, values, ret, site, start_addr, count,
                sock, response, exc, open_fds, leaked, slept, calls, bg, burst,
                fx, io, config>>

MainAt(position) == ~uploader.halted /\ uploader.main = position
WatchdogAt(position) == ~uploader.halted /\ uploader.watchdog = position

\* upload_log_file returns False on the path named: success = False (line 168),
\* and main_loop goes on to its check (line 170).
ReturnFalse(path) ==
    [uploader EXCEPT !.main = "check", !.success = "False", !.path = path]

\* upload_log_file returns False from inside the try of line 134: the finally
\* clause (lines 158-162) runs ftps.quit() first.
ReturnFalseAfterQuit(path) ==
    [uploader EXCEPT !.main = "quit", !.success = "False", !.path = path]

\* Lines 124-126: read_file_latin1 returns the text, or None on IOError.
ReadLogFile ==
    /\ MainAt("read_file")
    /\ \E ok \in BOOLEAN :
        uploader' = IF ok THEN [uploader EXCEPT !.main = "connect", !.path = "none",
                                                !.success = "unset"]
                    ELSE ReturnFalse("unreadable")
    /\ ReaderUnchanged

\* Lines 128-132: connect_ftps returns the connection, or None on ftplib.all_errors;
\* any other exception (AttributeError of login when FTP_HOST is not set) leaves
\* upload_log_file and is caught at line 175.
ConnectFtps ==
    /\ MainAt("connect")
    /\ \E outcome \in {"connected", "None", "raised"} :
        uploader' = CASE outcome = "connected" -> [uploader EXCEPT !.main = "cwd"]
                      [] outcome = "None" -> ReturnFalse("connect_failed")
                      [] outcome = "raised" ->
                            [uploader EXCEPT !.main = "check", !.handling = TRUE,
                                             !.path = "raised"]
    /\ ReaderUnchanged

\* Lines 135-137 and 155-157: ftps.cwd succeeds, or fails with error_perm (the
\* directory is then made), or with another of ftplib.all_errors.
ChangeDirectory ==
    /\ MainAt("cwd")
    /\ \E outcome \in {"ok", "error_perm", "error"} :
        uploader' = CASE outcome = "ok" -> [uploader EXCEPT !.main = "stor"]
                      [] outcome = "error_perm" -> [uploader EXCEPT !.main = "mkd"]
                      [] outcome = "error" -> ReturnFalseAfterQuit("upload_error")
    /\ ReaderUnchanged

\* Lines 138-143 and 155-157: ftps.mkd and the second ftps.cwd.
MakeDirectory ==
    /\ MainAt("mkd")
    /\ \E outcome \in {"ok", "error_perm", "error"} :
        uploader' = CASE outcome = "ok" -> [uploader EXCEPT !.main = "stor"]
                      [] outcome = "error_perm" -> ReturnFalseAfterQuit("mkdir_failed")
                      [] outcome = "error" -> ReturnFalseAfterQuit("upload_error")
    /\ ReaderUnchanged

\* Lines 145-149 and 155-157: ftps.storbinary completes, or fails.
StoreFile ==
    /\ MainAt("stor")
    /\ \E ok \in BOOLEAN :
        uploader' = IF ok THEN [uploader EXCEPT !.main = "lock", !.path = "stored"]
                    ELSE ReturnFalseAfterQuit("upload_error")
    /\ ReaderUnchanged

\* Line 151 left out: line 152 is reached without the lock.
AcquireForWrite_NoLock ==
    /\ MainAt("lock")
    /\ uploader' = [uploader EXCEPT !.main = "write"]
    /\ ReaderUnchanged

\* Line 151: with upload_lock (upload_log_file).
AcquireForWrite ==
    /\ MainAt("lock")
    /\ uploader.upload_lock = "free"
    /\ uploader' = [uploader EXCEPT !.upload_lock = "main", !.main = "write"]
    /\ ReaderUnchanged

\* Lines 152-153: the timestamp is written, the lock released, True returned
\* (through the finally clause).
WriteTimestamp ==
    /\ MainAt("write")
    /\ uploader' = [uploader EXCEPT !.last_successful_upload = uploader.now,
                                    !.upload_lock = "free",
                                    !.main = "quit",
                                    !.success = "True",
                                    !.invoked = "none"]
    /\ ReaderUnchanged

\* Lines 158-162: ftps.quit(), its errors ignored; upload_log_file returns.
QuitFtps ==
    /\ MainAt("quit")
    /\ uploader' = [uploader EXCEPT !.main = "check"]
    /\ ReaderUnchanged

\* Lines 170 and 178: with upload_lock (main_loop).
AcquireForCheck ==
    /\ MainAt("check")
    /\ uploader.upload_lock = "free"
    /\ uploader' = [uploader EXCEPT !.upload_lock = "main", !.main = "compute"]
    /\ ReaderUnchanged

\* The end of an iteration of main_loop: the lock is released and
\* time.sleep(UPLOAD_INTERVAL) is called (line 183).
MainSleeps(u) ==
    [u EXCEPT !.upload_lock = "free", !.main = "sleep", !.handling = FALSE,
              !.main_since = 0, !.main_wake = u.now + UPLOAD_INTERVAL]

\* The check of main_loop without the comparison of lines 172 and 180.
MainCompute_AlwaysRebooting ==
    /\ MainAt("compute")
    /\ uploader' = [uploader EXCEPT
                        !.main_since = uploader.now - uploader.last_successful_upload,
                        !.main = "reboot", !.invoked = "main"]
    /\ ReaderUnchanged

\* Lines 171-174 and 179-182: the time since the last success is measured and
\* compared; reboot_device is called, or the iteration ends.
MainCompute ==
    /\ MainAt("compute")
    /\ LET time_since_last_success == uploader.now - uploader.last_successful_upload
           measured == [uploader EXCEPT !.main_since = time_since_last_success]
       IN  uploader' = IF time_since_last_success > MAX_UPLOAD_FAILURE_TIME
                       THEN [measured EXCEPT !.main = "reboot", !.invoked = "main"]
                       ELSE MainSleeps(measured)
    /\ ReaderUnchanged

\* Lines 62-67 called from main_loop: subprocess.run returns (the command ran,
\* or failed with CalledProcessError, which is logged), or raises an OSError
\* (sudo cannot be started): from the try block this is caught at line 175, from
\* the except block it leaves main_loop and the process ends.  Or the system
\* goes down.
MainReboot ==
    /\ MainAt("reboot")
    /\ \E outcome \in {"returned", "raised", "down"} :
        uploader' = CASE outcome = "returned" -> MainSleeps(uploader)
                      [] outcome = "raised" ->
                            IF uploader.handling
                            THEN [uploader EXCEPT !.upload_lock = "free",
                                                  !.main_since = 0,
                                                  !.main = "exited", !.halted = TRUE]
                            ELSE [uploader EXCEPT !.upload_lock = "free",
                                                  !.main_since = 0,
                                                  !.main = "check", !.handling = TRUE]
                      [] outcome = "down" -> [uploader EXCEPT !.halted = TRUE]
    /\ ReaderUnchanged

\* Line 183: time.sleep(UPLOAD_INTERVAL) returns; the next iteration begins.
MainWakes ==
    /\ MainAt("sleep")
    /\ uploader.now >= uploader.main_wake
    /\ uploader' = [uploader EXCEPT !.main = "read_file", !.main_wake = 0]
    /\ ReaderUnchanged

\* Line 72: time.sleep(605) returns.
WatchdogWakes ==
    /\ WatchdogAt("sleep")
    /\ uploader.now >= uploader.watchdog_wake
    /\ uploader' = [uploader EXCEPT !.watchdog = "acquire", !.watchdog_wake = 0]
    /\ ReaderUnchanged

\* Line 73: with upload_lock (watchdog_timer).
WatchdogAcquire ==
    /\ WatchdogAt("acquire")
    /\ uploader.upload_lock = "free"
    /\ uploader' = [uploader EXCEPT !.upload_lock = "watchdog", !.watchdog = "compute"]
    /\ ReaderUnchanged

\* The end of an iteration of watchdog_timer: the lock is released and
\* time.sleep(605) is called (line 72).
WatchdogSleeps(u) ==
    [u EXCEPT !.upload_lock = "free", !.watchdog = "sleep", !.watchdog_since = 0,
              !.watchdog_wake = u.now + WATCHDOG_INTERVAL]

\* Lines 74-77: the watchdog's measurement and comparison.
WatchdogCompute ==
    /\ WatchdogAt("compute")
    /\ LET time_since_last_success == uploader.now - uploader.last_successful_upload
           measured == [uploader EXCEPT !.watchdog_since = time_since_last_success]
       IN  uploader' = IF time_since_last_success > MAX_UPLOAD_FAILURE_TIME
                       THEN [measured EXCEPT !.watchdog = "reboot",
                                             !.invoked = "watchdog"]
                       ELSE WatchdogSleeps(measured)
    /\ ReaderUnchanged

\* Lines 62-67 called from watchdog_timer: an OSError of subprocess.run is
\* caught nowhere in the thread, which ends.
WatchdogReboot ==
    /\ WatchdogAt("reboot")
    /\ \E outcome \in {"returned", "raised", "down"} :
        uploader' = CASE outcome = "returned" -> WatchdogSleeps(uploader)
                      [] outcome = "raised" ->
                            [uploader EXCEPT !.upload_lock = "free",
                                             !.watchdog_since = 0,
                                             !.watchdog = "ended"]
                      [] outcome = "down" -> [uploader EXCEPT !.halted = TRUE]
    /\ ReaderUnchanged

\* The time to the end of a sleep in progress.
SleepsLeft ==
    (IF uploader.main = "sleep" /\ uploader.main_wake > uploader.now
     THEN {uploader.main_wake - uploader.now} ELSE {})
    \cup (IF uploader.watchdog = "sleep" /\ uploader.watchdog_wake > uploader.now
          THEN {uploader.watchdog_wake - uploader.now} ELSE {})

\* Time passes: to the end of a sleep, or for the time an upload takes.
Tick ==
    /\ uploader.main # "none"
    /\ ~uploader.halted
    /\ \E d \in SleepsLeft \cup IoDurations :
        /\ uploader.now + d <= Horizon
        /\ uploader' = [uploader EXCEPT !.now = uploader.now + d]
    /\ ReaderUnchanged

\* The steps of the two threads.
UploadSteps ==
    \/ ReadLogFile
    \/ ConnectFtps
    \/ ChangeDirectory
    \/ MakeDirectory
    \/ StoreFile
    \/ AcquireForWrite
    \/ WriteTimestamp
    \/ QuitFtps
    \/ AcquireForCheck
    \/ MainCompute
    \/ MainReboot
    \/ MainWakes
    \/ WatchdogWakes
    \/ WatchdogAcquire
    \/ WatchdogCompute
    \/ WatchdogReboot

UploadNext == UploadSteps \/ Tick

SpecUpload == UploadInit /\ [][UploadNext]_vars

(***************************************************************************)
(* The uploader under fair scheduling, with a clock that never stops.      *)
(***************************************************************************)
\* A time t when the origin of time is moved forward by s: a time before the
\* new origin becomes the origin.
Earlier(t, s) == IF t > s THEN t - s ELSE 0

\* Time passes, and never stops.  The times kept are compared with each other
\* and with MAX_UPLOAD_FAILURE_TIME only, so the origin of time can be moved:
\* when the clock would pass the horizon it is set back to
\* MAX_UPLOAD_FAILURE_TIME + 1 and every time kept is lowered by the same amount.  A timestamp that would fall
\* before the new origin is more than MAX_UPLOAD_FAILURE_TIME old before and
\* after; the end of a sleep that would fall before it has passed.
TickRebased ==
    /\ uploader.main # "none"
    /\ ~uploader.halted
    /\ \E d \in SleepsLeft \cup IoDurations :
        LET t == uploader.now + d
            s == IF t > Horizon THEN t - (MAX_UPLOAD_FAILURE_TIME + 1) ELSE 0
        IN  uploader' = [uploader EXCEPT
                            !.now = t - s,
                            !.last_successful_upload = Earlier(@, s),
                            !.main_wake = Earlier(@, s),
                            !.watchdog_wake = Earlier(@, s)]
    /\ ReaderUnchanged

UploadFairNext == UploadSteps \/ TickRebased

\* Time goes on.  A sleep that is over returns, a thread that can take the lock
\* again and again gets it, and a thread holding the lock goes on to release
\* it.  No step of file or FTPS I/O and no subprocess has to end: they can block
\* for ever.
UploadFairness ==
    /\ WF_vars(TickRebased)
    /\ WF_vars(MainWakes)
    /\ SF_vars(AcquireForWrite)
    /\ WF_vars(WriteTimestamp)
    /\ SF_vars(AcquireForCheck)
    /\ WF_vars(MainCompute)
    /\ WF_vars(WatchdogWakes)
    /\ SF_vars(WatchdogAcquire)
    /\ WF_vars(WatchdogCompute)

SpecUploadFair == UploadInit /\ [][UploadFairNext]_vars /\ UploadFairness

(***************************************************************************)
(* Reading the history of a poll.                                          *)
(***************************************************************************)
\* Between two iterations of the for loop, or after the return.
AtBoundary == pc \in {"loop", "done"}

\* The catalog positions whose iteration of the for loop has ended.
Completed == 1..(idx - 1)

RegAt(j) == registers[RegisterOrder[j]]

CallsOf(j, from) == {k \in 1..Len(calls) : calls[k].idx = j /\ calls[k].site = from}

NoCall == [idx |-> 0, addr |-> 0, count |-> 0, site |-> "none", state |-> "none",
           words |-> <<>>]

\* The value read of position j and its scale-factor read (NoCall when none).
ValueCall(j) ==
    LET ks == CallsOf(j, "value") IN IF ks = {} THEN NoCall ELSE calls[CHOOSE k \in ks : TRUE]
ScaleCall(j) ==
    LET ks == CallsOf(j, "sf") IN IF ks = {} THEN NoCall ELSE calls[CHOOSE k \in ks : TRUE]

IsNumeric(reg_info) == reg_info.type \in {"uint16", "int16", "acc32"}

\* The raw value a numeric descriptor decodes from the words v of its value read.
RawFrom(reg_info, v) ==
    IF reg_info.type = "acc32" THEN v.words[1] * 65536 + v.words[2]
    ELSE IF reg_info.type = "int16" /\ v.words[1] > 32767 THEN v.words[1] - 65536
    ELSE v.words[1]

\* The exponent in force given the scale-factor read s of a descriptor: the
\* word read, taken as the catalog types the scale-factor register, when the
\* read succeeded and the exponent lies in -5..5; otherwise 0.
ExponentFrom(reg_info, s) ==
    IF s.state # "ok" THEN 0
    ELSE LET w == s.words[1]
             e == IF registers[reg_info.sf].type = "int16" /\ w > 32767
                  THEN w - 65536 ELSE w
         IN  IF e >= -5 /\ e <= 5 THEN e ELSE 0

\* The value read v delivered the sentinel bit pattern of the descriptor.
SentinelRead(reg_info, v) ==
    /\ "invalid" \in DOMAIN reg_info
    /\ v.state = "ok"
    /\ v.words[1] = reg_info.invalid

\* What a descriptor yields from the outcomes v, s of its own transport calls.
OwnValue(reg_info, v, s) ==
    IF v.state # "ok" THEN NoData
    ELSE IF reg_info.type = "string"
        THEN StrValue(DecodeString(v.words, reg_info.length))
    ELSE IF SentinelRead(reg_info, v) THEN NoData
    ELSE Normal(RawFrom(reg_info, v), ExponentFrom(reg_info, s))

\* The register count the catalog asks for.
CountOf(reg_info) ==
    IF reg_info.type = "string" THEN (reg_info.length + 1) \div 2
    ELSE IF reg_info.type = "acc32" THEN 2 ELSE 1

AllCallsFailed == \A k \in 1..Len(calls) : calls[k].state = "failed"

\* The positions whose value read failed.
FailedPositions == {calls[k].idx : k \in {n \in 1..Len(calls) :
                        calls[n].site = "value" /\ calls[n].state = "failed"}}

(***************************************************************************)
(* C1.  read_all never fails as a whole: whatever the outcomes of the      *)
(* transport calls, no exception leaves read_all, every step it takes      *)
(* brings its return nearer (read_all terminates), it returns a dict with  *)
(* an entry for every catalog name, and when every transport call of the   *)
(* poll failed every value of that dict is None.                           *)
(***************************************************************************)
ReturnsReadingSet ==
    /\ pc # "raised"
    /\ pc = "done" =>
        /\ calls # <<>>
        /\ \A j \in 1..Len(RegisterOrder) : RegAt(j).name \in DOMAIN results
        /\ AllCallsFailed => \A n \in DOMAIN results : results[n] = NoData

\* The steps read_all has left, at most: 13 per catalog position.
Rank ==
    IF pc = "done" THEN 0
    ELSE 13 * (Len(RegisterOrder) + 1 - idx)
         + (IF pc = "loop" THEN 12
            ELSE (IF site = "value" THEN 6 ELSE 0)
                 + (CASE pc = "connect" -> 5 [] pc = "send" -> 4 [] pc = "finally" -> 3
                      [] pc = "sleep" -> 2 [] OTHER -> 1))

C1_ReadAllNeverFails ==
    [][ReturnsReadingSet' /\ (pc # "done" => Rank' < Rank)]_vars

C1_Witness == pc = "done" /\ AllCallsFailed /\ Len(calls) = Len(RegisterOrder)

(***************************************************************************)
(* C2.  Failure isolation: when the value read of position i failed, the   *)
(* value stored for i is None, and every later position j is read with the *)
(* catalog's own request, once, and stores what its own responses decode   *)
(* to.                                                                     *)
(***************************************************************************)
C2_FailureIsolation ==
    AtBoundary =>
        LET failed == FailedPositions
        IN  /\ \A i \in failed \cap Completed : results[RegAt(i).name] = NoData
            /\ \A j \in Completed :
                (\E i \in failed : i < j) =>
                    LET v == ValueCall(j)
                        s == ScaleCall(j)
                    IN  /\ Cardinality(CallsOf(j, "value")) = 1
                        /\ v.addr = RegisterOrder[j]
                        /\ v.count = CountOf(RegAt(j))
                        /\ results[RegAt(j).name] = OwnValue(RegAt(j), v, s)

C2_Witness ==
    /\ pc = "done"
    /\ \E i, j \in Completed :
        /\ i < j
        /\ ValueCall(i).state = "failed"
        /\ ValueCall(j).state = "ok"
        /\ results[RegAt(j).name] # NoData

(***************************************************************************)
(* C3.  As claimed: every value stored for a numeric descriptor with a     *)
(* scale-factor register is None or raw * 10^sf, sf being the signed       *)
(* exponent read from that register in this poll.                          *)
(***************************************************************************)
C3_AsClaimed ==
    AtBoundary =>
        \A j \in Completed :
            IsNumeric(RegAt(j)) /\ "sf" \in DOMAIN RegAt(j) =>
                LET v == ValueCall(j)
                    s == ScaleCall(j)
                IN  \/ results[RegAt(j).name] = NoData
                    \/ /\ v.state = "ok"
                       /\ s.state = "ok"
                       /\ results[RegAt(j).name] =
                            Normal(RawFrom(RegAt(j), v),
                                   IF s.words[1] > 32767 THEN s.words[1] - 65536
                                   ELSE s.words[1])

(***************************************************************************)
(* C3, amended.  Every value stored for a numeric descriptor is None or    *)
(* raw * 10^e, raw being the value decoded from this poll's value read and *)
(* e the exponent in force: the exponent decoded from this entry's own     *)
(* scale-factor read when that read succeeded and it lies in -5..5, and 0  *)
(* otherwise (no scale-factor register, failed read, exponent outside the  *)
(* envelope).                                                              *)
(***************************************************************************)
C3_ScaledOrNoData ==
    AtBoundary =>
        \A j \in Completed :
            IsNumeric(RegAt(j)) =>
                LET v == ValueCall(j)
                    s == ScaleCall(j)
                IN  \/ results[RegAt(j).name] = NoData
                    \/ /\ v.state = "ok"
                       /\ results[RegAt(j).name] =
                            Normal(RawFrom(RegAt(j), v),
                                   IF "sf" \in DOMAIN RegAt(j)
                                   THEN ExponentFrom(RegAt(j), s) ELSE 0)

\* I_AC_Power raw 150 with I_AC_Power_SF raw 65535 is stored as 15.
C3_Witness ==
    /\ pc = "done"
    /\ ValueCall(12).words = <<150>>
    /\ ScaleCall(12).words = <<65535>>
    /\ results["I_AC_Power"] = [kind |-> "num", m |-> 15, e |-> 0]

(***************************************************************************)
(* C4.  When the word read for a descriptor with a sentinel is exactly the *)
(* sentinel bit pattern, None is stored for it and no scale-factor read is *)
(* issued for it.                                                          *)
(***************************************************************************)
C4_SentinelIsNoData ==
    AtBoundary =>
        \A j \in Completed :
            SentinelRead(RegAt(j), ValueCall(j)) =>
                /\ results[RegAt(j).name] = NoData
                /\ CallsOf(j, "sf") = {}

C4_Witness ==
    /\ pc = "done"
    /\ \E j \in Completed :
        /\ RegAt(j).type = "int16"
        /\ SentinelRead(RegAt(j), ValueCall(j))
        /\ ValueCall(j).words = <<32768>>

(***************************************************************************)
(* C5.  As claimed: no value read is issued for a scale-factor register as *)
(* an entry of its own, and the keys of the dict are among the 18          *)
(* published names.                                                        *)
(***************************************************************************)
ScaleFactorNames ==
    {"I_AC_Current_SF", "I_AC_Voltage_SF", "I_AC_Power_SF", "I_AC_Frequency_SF",
     "I_AC_Energy_WH_SF", "I_DC_Current_SF", "I_DC_Voltage_SF", "I_DC_Power_SF",
     "I_Temp_SF"}

PublishedNames ==
    {"C_SunSpec_ID", "C_Manufacturer", "C_Model", "C_Version", "C_SerialNumber",
     "I_AC_Current", "I_AC_CurrentA", "I_AC_VoltageAB", "I_AC_VoltageAN",
     "I_AC_Power", "I_AC_Frequency", "I_AC_Energy_WH", "I_DC_Current",
     "I_DC_Voltage", "I_DC_Power", "I_Status", "I_Status_Description",
     "I_Temp_Sink"}

C5_ScaleFactorEntriesSkipped ==
    /\ \A k \in 1..Len(calls) :
        calls[k].site = "value" => registers[calls[k].addr].name \notin ScaleFactorNames
    /\ DOMAIN results \subseteq PublishedNames

(***************************************************************************)
(* C6.  As claimed: for every descriptor with a scale-factor register,     *)
(* _get_scale_factor returns the word read taken as signed 16-bit.         *)
(***************************************************************************)
ScaleReadReturned == pc = "returned" /\ site = "sf" /\ exc = NoExc

RECURSIVE Pow10(_)
Pow10(n) == IF n = 0 THEN 1 ELSE 10 * Pow10(n - 1)

\* The decimal dec equals raw * 10^e.
IsRawTimes10Pow(dec, raw, e) ==
    /\ dec.kind = "num"
    /\ IF raw = 0 THEN dec.m = 0
       ELSE /\ dec.e - e \in 0..9
            /\ raw % Pow10(dec.e - e) = 0
            /\ raw \div Pow10(dec.e - e) = dec.m

C7_ScaleEnvelope ==
    fx.op = "applied" /\ fx.sf.some =>
        IsRawTimes10Pow(fx.out, fx.value,
                        IF fx.sf.v >= -5 /\ fx.sf.v <= 5 THEN fx.sf.v ELSE 0)

\* raw 1234 with the out-of-envelope exponent 6 stays 1234.
C7_Witness ==
    /\ fx.op = "applied"
    /\ fx.value = 1234
    /\ fx.sf = SomeSf(6)
    /\ fx.out = [kind |-> "num", m |-> 1234, e |-> 0]

(***************************************************************************)
(* C8.  When the value read of a numeric entry succeeded with a word that  *)
(* is not the sentinel and its scale-factor read failed, the entry is      *)
(* stored with exponent 0 (its decoded raw value), not as None, and the    *)
(* loop goes on to the next entry.                                         *)
(***************************************************************************)
ScaleReadFailed(j) ==
    /\ IsNumeric(RegAt(j))
    /\ ValueCall(j).state = "ok"
    /\ ~SentinelRead(RegAt(j), ValueCall(j))
    /\ ScaleCall(j).state = "failed"

C8_ScaleFailureAbsorbed ==
    AtBoundary =>
        \A j \in Completed :
            ScaleReadFailed(j) =>
                /\ results[RegAt(j).name] # NoData
                /\ IsRawTimes10Pow(results[RegAt(j).name], RawFrom(RegAt(j), ValueCall(j)), 0)
                /\ j + 1 \in Completed => CallsOf(j + 1, "value") # {}

C8_Witness ==
    /\ pc = "done"
    /\ \E j \in Completed :
        /\ ScaleReadFailed(j)
        /\ CallsOf(j + 1, "value") # {}

(***************************************************************************)
(* C9.  Scale factors are read on demand and never reused: every           *)
(* scale-factor read is a single-register read of the descriptor's own     *)
(* scale-factor address, issued right after that entry's successful value  *)
(* read; every scaled value stored for a descriptor with a scale-factor    *)
(* register has exactly one such read of its own in this poll, and its     *)
(* exponent is the one that read delivered.                                *)
(***************************************************************************)
C9_ScaleReadPerEntry ==
    /\ \A k \in 1..Len(calls) :
        calls[k].site = "sf" =>
            /\ k > 1
            /\ calls[k - 1].site = "value"
            /\ calls[k - 1].idx = calls[k].idx
            /\ calls[k - 1].state = "ok"
            /\ calls[k].count = 1
            /\ calls[k].addr = RegAt(calls[k].idx).sf
    /\ AtBoundary =>
        \A j \in Completed :
            "sf" \in DOMAIN RegAt(j) /\ results[RegAt(j).name] # NoData =>
                /\ Cardinality(CallsOf(j, "sf")) = 1
                /\ results[RegAt(j).name] =
                      Normal(RawFrom(RegAt(j), ValueCall(j)),
                             ExponentFrom(RegAt(j), ScaleCall(j)))

\* I_AC_Current and I_AC_CurrentA share 40075; each got its own read, and the
\* two reads delivered different exponents, each applied to its own entry.
C9_Witness ==
    /\ pc = "done"
    /\ ScaleCall(6).addr = 40075
    /\ ScaleCall(7).addr = 40075
    /\ ScaleCall(6).words = <<2>>
    /\ ScaleCall(7).words = <<65535>>
    /\ results["I_AC_Current"].e # results["I_AC_CurrentA"].e

(***************************************************************************)
(* C10.  As claimed: on every outcome _read_registers closes the socket it *)
(* created before the inter-request delay, and performs the delay before   *)
(* it returns: no socket is open when the delay starts, nor when control   *)
(* is back in the caller.                                                  *)
(***************************************************************************)
C10_ClosedThenDelayed ==
    /\ pc = "sleep" => open_fds = 0
    /\ pc = "returned" => slept = 1 /\ open_fds = 0

(***************************************************************************)
(* The outcome of a _read_registers call, once it has left its try block.  *)
(***************************************************************************)
CallOver == pc \in {"finally", "sleep", "returned"}

\* The connection of the call was established.
Connected == sock # "None"

\* The four kinds of failure, as the code raises them: Exception("Connection
\* failed: ...") and the OSError of a connection lost during the exchange,
\* Exception("Timeout waiting for response"), ValueError("Modbus error N") and
\* every other ValueError.
ErrorKind(e) ==
    IF e.type = "Exception" /\ e.msg = "Connection failed" THEN "connection"
    ELSE IF e.type = "OSError" THEN "connection"
    ELSE IF e.type = "Exception" /\ e.msg = "Timeout waiting for response" THEN "timeout"
    ELSE IF e.type = "ValueError" /\ e.msg = "Modbus error" THEN "device"
    ELSE IF e.type = "ValueError" THEN "protocol"
    ELSE "other"

\* The received response carries a device exception: byte offset 7 is 0x83.
IsExceptionResponse == Len(response) >= 8 /\ response[8] = 131

(***************************************************************************)
(* C11.  As claimed: for every response of at least 8 bytes whose byte at  *)
(* offset 7 is 0x83, _read_registers fails with the device-exception error *)
(* carrying the byte at offset 8, whatever the count and the further       *)
(* bytes, and with no other kind of error.                                 *)
(***************************************************************************)
C11_DeviceExceptionCarriesCode ==
    CallOver /\ IsExceptionResponse =>
        /\ ErrorKind(exc) = "device"
        /\ Len(response) >= 9 => exc.code = response[9]

(***************************************************************************)
(* C12.  As claimed: _read_registers returns words exactly when the        *)
(* connection succeeded and the response received has at least 9 + 2*count *)
(* bytes and byte 7 is not 0x83, and then returns count words, word i the  *)
(* big-endian value of bytes 9+2i and 10+2i; a shorter response (not a     *)
(* device exception, which the claim classes as device error) is a         *)
(* protocol error; every failure is one of connection, timeout, protocol   *)
(* and device error; and read_all stores None for an entry whose value     *)
(* read failed.                                                            *)
(***************************************************************************)
C12_OutcomeClassification ==
    /\ CallOver =>
        LET good == /\ Connected
                    /\ Len(response) >= 9 + count * 2
                    /\ response[8] # 131
        IN  /\ (exc = NoExc) <=> good
            /\ good =>
                /\ Len(ret) = count
                /\ \A i \in 0..(count - 1) :
                    ret[i + 1] = response[9 + 2 * i + 1] * 256 + response[10 + 2 * i + 1]
            /\ (/\ Connected
                /\ io.recvs = 1
                /\ ErrorKind(exc) \in {"protocol", "device", "other"}
                /\ Len(response) < 9 + count * 2
                /\ ~IsExceptionResponse) => ErrorKind(exc) = "protocol"
            /\ exc # NoExc =>
                ErrorKind(exc) \in {"connection", "timeout", "protocol", "device"}
    /\ AtBoundary =>
        \A j \in FailedPositions \cap Completed : results[RegAt(j).name] = NoData

(***************************************************************************)
(* C13.  No retries within a poll: every catalog entry has at most one     *)
(* value read and at most one scale-factor read on its behalf, and after a *)
(* transport call failed no further call is issued for the same entry.     *)
(* In the history of the poll: the calls follow the catalog order, and a   *)
(* call for the entry of the call before it is the scale-factor read that  *)
(* follows the successful value read.  The calls of one entry are then     *)
(* consecutive and at most two, a value read and a scale-factor read, and  *)
(* a failed call is the last of its entry.                                 *)
(***************************************************************************)
C13_NoRetries ==
    \A k \in 2..Len(calls) :
        /\ calls[k].idx >= calls[k - 1].idx
        /\ calls[k].idx = calls[k - 1].idx =>
            /\ calls[k - 1].site = "value"
            /\ calls[k].site = "sf"
            /\ calls[k - 1].state # "failed"

\* A poll in which a value read failed at one entry and, the device being up,
\* every other entry was read.
C13_Witness ==
    /\ pc = "done"
    /\ bg.up
    /\ \E k \in 1..Len(calls) :
        /\ calls[k].state = "failed"
        /\ k < Len(calls)
        /\ calls[k + 1].idx = calls[k].idx + 1

(***************************************************************************)
(* C14.  As claimed: each _read_registers call opens exactly one           *)
(* connection, sends exactly one 12-byte request and performs at most one  *)
(* receive; at most one socket is open at any time.                        *)
(***************************************************************************)
C14_AsClaimed ==
    /\ open_fds <= 1
    /\ pc = "returned" =>
        /\ io.created = 1
        /\ Connected
        /\ Len(io.requests) = 1
        /\ Len(io.requests[1]) = 12
        /\ io.recvs <= 1

(***************************************************************************)
(* C14, amended.  Each _read_registers call creates exactly one new socket *)
(* and makes one connection attempt; it starts without a socket (none is   *)
(* reused); it sends at most one request, of 12 bytes, on the connection   *)
(* it established itself: exactly one when the connection is established   *)
(* and sendall does not fail, none when the connection fails; it performs  *)
(* at most one receive, after the request; at most one socket is open at   *)
(* any time.                                                               *)
(***************************************************************************)
C14_OneSocketOneRequest ==
    /\ open_fds <= 1
    /\ pc = "connect" => sock = "None" /\ io = NoIo
    /\ CallOver \/ pc = "send" => io.created = 1
    /\ Len(io.requests) <= 1
    /\ io.recvs <= Len(io.requests)
    /\ io.requests # <<>> => Connected /\ Len(io.requests[1]) = 12
    /\ CallOver /\ ~Connected => io.requests = <<>>
    /\ CallOver /\ Connected /\ exc.type # "OSError" => Len(io.requests) = 1

\* A call, not the first of the poll, that exchanged one request for one
\* response on its own socket, now closed.
C14_Witness ==
    /\ pc = "returned"
    /\ Len(calls) >= 2
    /\ io.created = 1
    /\ Len(io.requests) = 1
    /\ io.recvs = 1
    /\ sock = "closed"
    /\ open_fds = 0

(***************************************************************************)
(* C15.  Signed-16 decoding: for a word v of an int16 descriptor the       *)
(* decoded value is v - 65536 when v > 32767 and v otherwise; it lies in   *)
(* -32768..32767 and is congruent to v modulo 2^16; for a uint16           *)
(* descriptor the decoded value is the word.                               *)
(***************************************************************************)
C15_Signed16Decoding ==
    fx.op = "word" /\ fx.done =>
        LET v == fx.arg.word
        IN  IF fx.arg.reg_info.type = "int16"
            THEN /\ v > 32767 => fx.out = v - 65536
                 /\ v <= 32767 => fx.out = v
                 /\ fx.out \in -32768..32767
                 /\ (v - fx.out) % 65536 = 0
            ELSE fx.out = v

\* 0x8000 read for I_AC_Power decodes to -32768.
C15_Witness ==
    /\ fx.op = "word"
    /\ fx.done
    /\ fx.arg.reg_info.name = "I_AC_Power"
    /\ fx.arg.word = 32768
    /\ fx.out = -32768

(***************************************************************************)
(* C16.  Accumulator-32 decoding: the value read of an accumulator asks    *)
(* for 2 registers, and its raw value r is word0 * 2^16 + word1: r lies in *)
(* 0..2^32-1 (it is never negative), r div 2^16 is the first word and      *)
(* r mod 2^16 the second; [1, 0] gives 65536 and [0, 1] gives 1.           *)
(***************************************************************************)
\* Quotient and remainder by 2^16 of a number of the model below 2^32.
Quotient16(r) ==
    IF r.wide
    THEN (r.high \div 65536) * 10000 + ((r.high % 65536) * 10000 + r.low) \div 65536
    ELSE r.n \div 65536
Remainder16(r) ==
    IF r.wide THEN ((r.high % 65536) * 10000 + r.low) % 65536 ELSE r.n % 65536

\* 0 <= r <= 2^32 - 1 = 429496 * 10^4 + 7295
InUnsigned32(r) ==
    IF r.wide
    THEN /\ r.low \in 0..9999
         /\ r.high >= 214748
         /\ r.high < 429496 \/ (r.high = 429496 /\ r.low <= 7295)
    ELSE r.n >= 0

C16_Acc32Decoding ==
    fx.op = "acc32" /\ fx.done =>
        /\ fx.out.count = 2
        /\ InUnsigned32(fx.out.raw)
        /\ Quotient16(fx.out.raw) = fx.arg.words[1]
        /\ Remainder16(fx.out.raw) = fx.arg.words[2]
        /\ fx.arg.words = <<1, 0>> => fx.out.raw = Num(65536)
        /\ fx.arg.words = <<0, 1>> => fx.out.raw = Num(1)

\* The high word 0x8000: the raw value is 2^31 = 2147483648, not -2^31.
C16_Witness ==
    /\ fx.op = "acc32"
    /\ fx.done
    /\ fx.arg.words = <<32768, 0>>
    /\ fx.out.raw = Wide(214748, 3648)

(***************************************************************************)
(* C19.  Request framing: the request built for a start address and a      *)
(* count is the 12 bytes 00 01 (transaction id 1), 00 00 (protocol id 0),  *)
(* 00 06 (length 6), the configured unit id, 03, the offset start address  *)
(* - 40000 high byte first, the count high byte first.                     *)
(***************************************************************************)
C19_RequestFraming ==
    fx.op = "request" /\ fx.done /\ fx.out.ok =>
        LET offset == fx.arg.start_addr - 40000
            cnt == fx.arg.count
        IN  /\ Len(fx.out.bytes) = 12
            /\ \A i \in 1..12 : fx.out.bytes[i] \in 0..255
            /\ fx.out.bytes = <<0, 1, 0, 0, 0, 6, config.unit_id, 3,
                                offset \div 256, offset % 256,
                                cnt \div 256, cnt % 256>>

\* Unit 247, address 40256, 2 registers: 00 01 00 00 00 06 F7 03 01 00 00 02.
C19_Witness ==
    /\ fx.op = "request"
    /\ fx.done
    /\ config.unit_id = 247
    /\ fx.arg = [start_addr |-> 40256, count |-> 2]
    /\ fx.out.ok
    /\ fx.out.bytes = <<0, 1, 0, 0, 0, 6, 247, 3, 1, 0, 0, 2>>

(***************************************************************************)
(* The bytes _read_string decodes: the words high byte first, truncated to *)
(* the byte length, without the bytes above 0x7F.                          *)
(***************************************************************************)
WordBytes(words) ==
    [i \in 1..(2 * Len(words)) |->
        IF i % 2 = 1 THEN words[(i + 1) \div 2] \div 256 ELSE words[i \div 2] % 256]

AsciiBytes(words, len) ==
    LET bytes == WordBytes(words)
        cut == [i \in 1..(IF len < Len(bytes) THEN len ELSE Len(bytes)) |-> bytes[i]]
    IN  SelectSeq(cut, LAMBDA b : b < 128)

\* n = ceil(len / 2)
IsCeilHalf(n, len) == 2 * n >= len /\ 2 * (n - 1) < len

(***************************************************************************)
(* C20.  As claimed: _read_string asks for ceil(L/2) registers and returns *)
(* the ASCII bytes without their trailing NULs: every other byte is kept.  *)
(***************************************************************************)
C20_AsClaimed ==
    fx.op = "string" /\ fx.done =>
        LET f == AsciiBytes(fx.arg.words, fx.arg.length)
            out == fx.out.value
        IN  /\ IsCeilHalf(fx.out.count, fx.arg.length)
            /\ Len(out) <= Len(f)
            /\ out = SubSeq(f, 1, Len(out))
            /\ \A i \in (Len(out) + 1)..Len(f) : f[i] = 0
            /\ out # <<>> => out[Len(out)] # 0

(***************************************************************************)
(* C20, amended.  _read_string asks for ceil(L/2) registers and returns    *)
(* the ASCII bytes without their leading and trailing NULs: the bytes from *)
(* the first to the last that is not NUL, the NULs between them included.  *)
(***************************************************************************)
C20_StripsBothEnds ==
    fx.op = "string" /\ fx.done =>
        LET f == AsciiBytes(fx.arg.words, fx.arg.length)
            out == fx.out.value
        IN  /\ IsCeilHalf(fx.out.count, fx.arg.length)
            /\ \E a \in 1..(Len(f) + 1) :
                /\ a + Len(out) - 1 <= Len(f)
                /\ out = SubSeq(f, a, a + Len(out) - 1)
                /\ \A i \in 1..(a - 1) : f[i] = 0
                /\ \A i \in (a + Len(out))..Len(f) : f[i] = 0
            /\ out # <<>> => out[1] # 0 /\ out[Len(out)] # 0

\* The bytes NUL "A" NUL "A" of a descriptor of length 4 give "A" NUL "A": the
\* leading NUL is stripped, the NUL between the letters is kept.
C20_Witness ==
    /\ fx.op = "string"
    /\ fx.done
    /\ fx.arg = [length |-> 4, words |-> <<65, 65>>]
    /\ fx.out.value = <<65, 0, 65>>

(***************************************************************************)
(* C17.  Status description: when the value read of I_Status succeeded     *)
(* with the word c, the dict holds I_Status_Description: the table's text  *)
(* for c in 1..8 (4: "Producing Power") and "Unknown status (c)" for every *)
(* other c (99: "Unknown status (99)"); c is the word as read, which is    *)
(* also the value stored for I_Status.                                     *)
(***************************************************************************)
StatusPosition == CHOOSE j \in 1..Len(RegisterOrder) : RegAt(j).name = "I_Status"

C17_StatusDescription ==
    AtBoundary /\ StatusPosition \in Completed =>
        LET v == ValueCall(StatusPosition)
            c == v.words[1]
        IN  v.state = "ok" =>
                /\ "I_Status_Description" \in DOMAIN results
                /\ results["I_Status"] = Normal(c, 0)
                /\ results["I_Status_Description"] =
                      IF c \in 1..8
                      THEN [kind |-> "text", text |-> status_descriptions[c], arg |-> 0]
                      ELSE [kind |-> "text", text |-> "Unknown status (%)", arg |-> c]
                /\ c = 4 => results["I_Status_Description"].text = "Producing Power"
                /\ c = 99 => results["I_Status_Description"].arg = 99

C17_Witness ==
    /\ pc = "done"
    /\ ValueCall(StatusPosition).words = <<4>>
    /\ results["I_Status_Description"] =
          [kind |-> "text", text |-> "Producing Power", arg |-> 0]

(***************************************************************************)
(* C18.  The core is stateless across polls: the configuration is the one  *)
(* the reader was constructed with; every poll, the first and the later    *)
(* ones, starts with an empty dict, no exception, no socket and no call    *)
(* made (nothing is left of an earlier poll); and the dict a poll returns   *)
(* holds, for the catalog's entries and the status description and for     *)
(* nothing else, what the responses of this poll's own calls decode to.    *)
(***************************************************************************)
\* The keys the entries done so far put into the dict.
KeysSoFar ==
    {RegAt(j).name : j \in Completed}
    \cup (IF StatusPosition \in Completed /\ ValueCall(StatusPosition).state = "ok"
          THEN {"I_Status_Description"} ELSE {})

ResultOfThisPoll ==
    pc = "done" =>
        /\ DOMAIN results = KeysSoFar
        /\ \A j \in Completed :
            results[RegAt(j).name] = OwnValue(RegAt(j), ValueCall(j), ScaleCall(j))

\* read_all is entered.
PollBegins == pc = "loop" /\ idx = 1

C18_StatelessAcrossPolls ==
    /\ config = DefaultConfig
    /\ PollBegins =>
        /\ results = EmptyDict
        /\ calls = <<>>
        /\ exc = NoExc
        /\ open_fds = 0
        /\ leaked = 0
    /\ ResultOfThisPoll

\* A poll has returned a dict with a reading; the caller can poll again.
C18_Witness ==
    /\ pc = "done"
    /\ results["I_AC_Power"] = [kind |-> "num", m |-> 15, e |-> 0]
    /\ results["I_Status"] # NoData


(***************************************************************************)
(* C21.  Sentinel check exactness: for every catalog descriptor declaring  *)
(* a sentinel and every word w of 0..65535 read for it, _is_valid_value on *)
(* the decoded value says invalid if and only if w is the descriptor's     *)
(* sentinel pattern; every sentinel of a signed descriptor is a pattern of *)
(* 32768 or more, and every sentinel is a word of 16 bits.                 *)
(***************************************************************************)
C21_SentinelExactness ==
    /\ \A r \in SentinelDescriptors :
          /\ r.invalid \in AllWords
          /\ r.type = "int16" => r.invalid >= 32768
    /\ fx.op = "valid" /\ fx.done =>
          (fx.out = FALSE <=> fx.arg.word = fx.arg.reg_info.invalid)

\* 0x8000 read for I_DC_Power is flagged, through the comparison of line 158.
C21_Witness ==
    /\ fx.op = "valid"
    /\ fx.done
    /\ fx.arg.reg_info.name = "I_DC_Power"
    /\ fx.arg.word = 32768
    /\ fx.out = FALSE


(***************************************************************************)
(* C22.  In the dict read_all returns, I_Status_Description is a key if    *)
(* and only if the value read of I_Status succeeded in that poll.  When    *)
(* the read failed, I_Status is None and the dict has no                   *)
(* I_Status_Description key at all; when the key is there, its text is     *)
(* the description of the very word the value of I_Status was made from.   *)
(* Before the entry of I_Status is done the key is not there either.       *)
(***************************************************************************)
C22_DescriptionIffStatusRead ==
    /\ AtBoundary /\ StatusPosition \notin Completed =>
          "I_Status_Description" \notin DOMAIN results
    /\ pc = "done" =>
          LET v == ValueCall(StatusPosition)
          IN  /\ v.state \in {"ok", "failed"}
              /\ "I_Status_Description" \in DOMAIN results <=> v.state = "ok"
              /\ v.state = "failed" => results["I_Status"] = NoData
              /\ v.state = "ok" =>
                    /\ results["I_Status"] = Normal(v.words[1], 0)
                    /\ results["I_Status_Description"] = StatusDescription(v.words[1])

\* A poll returned after the read of I_Status failed: I_Status is None and the
\* description is not a key.
C22_Witness ==
    /\ pc = "done"
    /\ ValueCall(StatusPosition).state = "failed"
    /\ results["I_Status"] = NoData
    /\ "I_Status_Description" \notin DOMAIN results
    /\ \E n \in DOMAIN results : results[n] # NoData

(***************************************************************************)
(* C23.  In upload.py a thread is inside reboot_device only while it holds *)
(* upload_lock, and after it measured, under that lock, more than          *)
(* MAX_UPLOAD_FAILURE_TIME (1800 s) since last_successful_upload, a time   *)
(* that has not become shorter since; the watchdog thread and the main     *)
(* thread are never inside reboot_device at the same time.                 *)
(***************************************************************************)
\* The time since the last success, read now.
TimeSince == uploader.now - uploader.last_successful_upload

C23_RebootUnderLock ==
    /\ uploader.main = "reboot" =>
          /\ uploader.upload_lock = "main"
          /\ uploader.main_since > MAX_UPLOAD_FAILURE_TIME
          /\ TimeSince >= uploader.main_since
          /\ uploader.invoked = "main"
    /\ uploader.watchdog = "reboot" =>
          /\ uploader.upload_lock = "watchdog"
          /\ uploader.watchdog_since > MAX_UPLOAD_FAILURE_TIME
          /\ TimeSince >= uploader.watchdog_since
          /\ uploader.invoked = "watchdog"
    /\ ~(uploader.main = "reboot" /\ uploader.watchdog = "reboot")

\* The watchdog is inside reboot_device; the main loop, back from an upload
\* that failed, waits for the lock at line 170.
C23_Witness ==
    /\ uploader.watchdog = "reboot"
    /\ uploader.main = "check"
    /\ uploader.success = "False"
    /\ ~uploader.halted

(***************************************************************************)
(* C24.  In upload.py last_successful_upload is written by upload_log_file *)
(* only (line 152), by a thread that holds upload_lock, after storbinary   *)
(* completed, and the value written is the time of the write, which is not *)
(* before the value replaced: the timestamp never decreases.  Every        *)
(* failing path of upload_log_file (log file unreadable, FTPS connection   *)
(* or login failure, remote directory not created, upload error) returns   *)
(* False and leaves the timestamp as it was.                               *)
(***************************************************************************)
C24_TimestampOnlyOnSuccess ==
    [][/\ uploader'.last_successful_upload >= uploader.last_successful_upload
       /\ uploader'.last_successful_upload # uploader.last_successful_upload =>
             /\ uploader.main = "write"
             /\ uploader.upload_lock = "main"
             /\ uploader.path = "stored"
             /\ uploader'.last_successful_upload = uploader.now
             /\ uploader'.success = "True"
       /\ uploader'.path \in FailingPaths =>
             /\ uploader'.success = "False"
             /\ uploader'.last_successful_upload = uploader.last_successful_upload
       /\ uploader'.success = "False" => uploader'.path \in FailingPaths
       /\ uploader'.success = "True" => uploader'.path = "stored"]_vars

\* After an earlier success, an upload has failed at making the remote
\* directory: False is returned, the timestamp is the one of the success.
C24_Witness ==
    /\ uploader.main = "check"
    /\ uploader.path = "mkdir_failed"
    /\ uploader.success = "False"
    /\ uploader.last_successful_upload > 0
    /\ uploader.now > uploader.last_successful_upload

(***************************************************************************)
(* C25.  In upload.py upload_lock is never held by a thread that performs  *)
(* file or FTPS I/O or sleeps, and a thread that asks for the lock does    *)
(* not hold it.  Under fair scheduling, when no upload succeeds any more,  *)
(* reboot_device is invoked after the last success; and when the main loop *)
(* stays inside upload_log_file for ever, it is the watchdog that invokes  *)
(* it, at one of its checks.                                               *)
(***************************************************************************)
\* The position of the thread that holds the lock.
HolderPosition ==
    CASE uploader.upload_lock = "main" -> uploader.main
      [] uploader.upload_lock = "watchdog" -> uploader.watchdog
      [] OTHER -> "none"

LockFreeOfBlocking ==
    /\ HolderPosition \notin IoPositions \cup SleepPositions
    /\ uploader.main \in {"lock", "check"} => uploader.upload_lock # "main"
    /\ uploader.watchdog = "acquire" => uploader.upload_lock # "watchdog"
    /\ uploader.main \in IoPositions /\ uploader.watchdog = "acquire" =>
          uploader.upload_lock = "free"

C25_WatchdogReboots ==
    /\ []LockFreeOfBlocking
    /\ []<>(uploader.invoked # "none" \/ uploader.main = "write")
    /\ <>[](uploader.main \in IoPositions) => <>[](uploader.invoked = "watchdog")


====
